---- MODULE Spec2Model ----
(***************************************************************************)
(* Device side of the Lys protocol (lys.c, lys.h) and the demo application *)
(* (main.c): the framing codec, the blocking transport loops over the      *)
(* SEGGER RTT read/write primitives, and the session engine.  One step of  *)
(* the model is one transport call together with the local code that       *)
(* follows it, or one block of local code between two transport calls.     *)
(***************************************************************************)
EXTENDS Integers, Sequences, FiniteSets, TLC

(***************************************************************************)
(* Program constants                                                       *)
(***************************************************************************)
LYS_LEN_INDEX == 0
LYS_OP_INDEX == 1
LYS_PARAM_TYPE_INDEX == 2
LYS_DATA_INDEX == 3
LYS_ARRAY_PARAM_TYPE_INDEX == 3
LYS_ARRAY_DATA_INDEX == 4
LYS_MSG_NO_PARAM_LEN == 2

LYS_MAX_STR_LEN == 64
LYS_MAX_ARRAY_LEN == 64
LYS_MAX_MSG_LEN == 64
LYS_PARAM_VARIABLE_SIZE == 0

LYS_ERROR_SUCCESS == 0
LYS_ERROR_INVALID_STATE == 1
LYS_ERROR_INVALID_PARAM == 2

LYS_STATE_UNKNOWN == 0
LYS_STATE_WAIT_FOR_START == 1
LYS_STATE_RUNNING == 2
LYS_STATE_RESULT == 3
LYS_STATE_FINISHED == 4

LYS_OP_UNKNOWN == 0
LYS_OP_INIT == 1
LYS_OP_START == 2
LYS_OP_RESULT == 3
LYS_OP_FINISHED == 4
LYS_OP_PARAM == 5
LYS_OP_ACK == 6
LYS_OP_LOG == 7

LYS_PARAM_TYPE_UINT32 == 0
LYS_PARAM_TYPE_INT32 == 1
LYS_PARAM_TYPE_UINT8 == 2
LYS_PARAM_TYPE_INT8 == 3
LYS_PARAM_TYPE_BOOL == 4
LYS_PARAM_TYPE_STRING == 5
LYS_PARAM_TYPE_ARRAY == 6

\* uint8_t arithmetic is modulo U8.  A uint32_t is the pair <<high half, low half>>
\* of its 16-bit halves, so that arithmetic modulo 2^32 is exact.
U8 == 16 * 16
W16 == U8 * U8
u32(n) == <<n \div W16, n % W16>>
u32_add(a, b) == <<(a[1] + b[1] + ((a[2] + b[2]) \div W16)) % W16, (a[2] + b[2]) % W16>>
u32_sub(a, b) ==
    LET borrow == IF a[2] < b[2] THEN 1 ELSE 0
    IN <<(a[1] + W16 - b[1] - borrow) % W16, (a[2] + W16 - b[2]) % W16>>
\* a * k for a small factor k (an item size)
u32_mul(a, k) == <<(a[1] * k + ((a[2] * k) \div W16)) % W16, (a[2] * k) % W16>>
\* a / k and a % k for a small divisor k > 0
u32_div(a, k) == <<a[1] \div k, ((a[1] % k) * W16 + a[2]) \div k>>
u32_mod(a, k) == ((a[1] % k) * W16 + a[2]) % k
u32_lt(a, b) == a[1] < b[1] \/ (a[1] = b[1] /\ a[2] < b[2])
\* the value of a uint32_t known to be below 2^16
u32_val(a) == a[2]

\* an m_ack_buf that holds the frame of lys_error_send
m_ack_buf_unknown == <<LYS_MSG_NO_PARAM_LEN, LYS_OP_UNKNOWN>>
\* m_ack_buf
m_ack_buf == <<LYS_MSG_NO_PARAM_LEN, LYS_OP_ACK>>

(***************************************************************************)
(* Bounds of the model                                                     *)
(***************************************************************************)
\* capacity in bytes of the host-to-device (down) RTT buffer
DownSize == 9
\* the most bytes one SEGGER_RTT_Write call accepts
UpSize == 2

\* no frame yet
NoOp == 0 - 1

(***************************************************************************)
(* Caller-side values.  A lys_param_t the caller passes is a record:       *)
(*   null      the lys_param_t pointer itself is NULL                      *)
(*   param_type                                                            *)
(*   ptr_null  data.p_str / data.p_array is NULL                           *)
(*   len       lys_str_t.len or lys_array_t.item_count (uint32_t)          *)
(*   inner     lys_array_t.param_type                                      *)
(*   data      the bytes pointed to, as a repeating pattern                *)
(***************************************************************************)
Param(t, d) ==
    [null |-> FALSE, param_type |-> t, ptr_null |-> FALSE, len |-> u32(0), inner |-> 0, data |-> d]
StrParam(l, d) ==
    [null |-> FALSE, param_type |-> LYS_PARAM_TYPE_STRING, ptr_null |-> FALSE, len |-> l,
     inner |-> 0, data |-> d]
ArrayParam(t, n, d) ==
    [null |-> FALSE, param_type |-> LYS_PARAM_TYPE_ARRAY, ptr_null |-> FALSE, len |-> n,
     inner |-> t, data |-> d]
NullParam ==
    [null |-> TRUE, param_type |-> 0, ptr_null |-> TRUE, len |-> u32(0), inner |-> 0, data |-> <<0>>]
NullPtrParam(t) ==
    [null |-> FALSE, param_type |-> t, ptr_null |-> TRUE, len |-> u32(0), inner |-> 0, data |-> <<0>>]

\* byte k (from 0) of the storage a data pointer refers to
DataByte(d, k) == d[(k % Len(d)) + 1]

Max(a, b) == IF a > b THEN a ELSE b
Min(a, b) == IF a < b THEN a ELSE b

(***************************************************************************)
(* Type table                                                              *)
(***************************************************************************)
\* lys_param_len_lookup: len is meaningful only when err is success
lys_param_len_lookup(param_type) ==
    CASE param_type \in {LYS_PARAM_TYPE_UINT32, LYS_PARAM_TYPE_INT32} ->
             [err |-> LYS_ERROR_SUCCESS, len |-> 4]
      [] param_type \in {LYS_PARAM_TYPE_UINT8, LYS_PARAM_TYPE_INT8, LYS_PARAM_TYPE_BOOL} ->
             [err |-> LYS_ERROR_SUCCESS, len |-> 1]
      [] param_type \in {LYS_PARAM_TYPE_STRING, LYS_PARAM_TYPE_ARRAY} ->
             [err |-> LYS_ERROR_SUCCESS, len |-> LYS_PARAM_VARIABLE_SIZE]
      [] OTHER -> [err |-> LYS_ERROR_INVALID_PARAM, len |-> 0]

(***************************************************************************)
(* Encoding                                                                *)
(***************************************************************************)
\* verify_array_len(p_array, &data_len); a is the caller's array parameter
verify_array_len(a) ==
    IF a.ptr_null THEN [err |-> LYS_ERROR_INVALID_PARAM, len |-> u32(0)]
    ELSE IF a.len = u32(0) THEN [err |-> LYS_ERROR_INVALID_PARAM, len |-> u32(0)]
    ELSE LET l == lys_param_len_lookup(a.inner)
         IN IF l.err # LYS_ERROR_SUCCESS THEN [err |-> l.err, len |-> u32(0)]
            ELSE IF l.len = LYS_PARAM_VARIABLE_SIZE
            THEN [err |-> LYS_ERROR_INVALID_PARAM, len |-> u32(0)]
            ELSE LET data_len == u32_mul(a.len, l.len)
                 IN IF u32_lt(u32(LYS_MAX_MSG_LEN), u32_add(u32(LYS_ARRAY_DATA_INDEX), data_len))
                    THEN [err |-> LYS_ERROR_INVALID_PARAM, len |-> data_len]
                    ELSE [err |-> LYS_ERROR_SUCCESS, len |-> data_len]

\* verify_str_len(p_str, &data_len)
verify_str_len(s) ==
    IF s.ptr_null THEN [err |-> LYS_ERROR_INVALID_PARAM, len |-> u32(0)]
    ELSE IF s.len = u32(0) THEN [err |-> LYS_ERROR_INVALID_PARAM, len |-> u32(0)]
    ELSE IF u32_lt(u32(LYS_MAX_MSG_LEN), u32_add(u32(LYS_DATA_INDEX), s.len))
         THEN [err |-> LYS_ERROR_INVALID_PARAM, len |-> s.len]
         ELSE [err |-> LYS_ERROR_SUCCESS, len |-> s.len]

\* m_buf[idx++] = b
PutByte(w, b) ==
    [w EXCEPT !.buf = [@ EXCEPT ![w.idx] = b], !.idx = (w.idx + 1) % U8]

\* memcpy(&m_buf[m_buf_index], p_param_data, param_len); m_buf_index += param_len,
\* for a uint32_t param_len n.  oob records a copy that runs past the end of m_buf.
CopyIn(w, d, n) ==
    LET fits == n[1] = 0 /\ w.idx + n[2] <= LYS_MAX_MSG_LEN
    IN [w EXCEPT !.buf = [k \in 0..(LYS_MAX_MSG_LEN - 1) |->
                             IF k >= w.idx /\ (~fits \/ k < w.idx + n[2])
                             THEN DataByte(d, k - w.idx)
                             ELSE w.buf[k]],
                 !.idx = (w.idx + n[2]) % U8,
                 !.oob = ~fits]

\* param_add(p_param) on the writer state w = [buf, idx, err, oob]
param_add(w, p) ==
    IF p.null THEN [w EXCEPT !.err = LYS_ERROR_INVALID_PARAM]
    ELSE LET l == lys_param_len_lookup(p.param_type)
         IN IF l.err # LYS_ERROR_SUCCESS THEN [w EXCEPT !.err = l.err]
            ELSE IF l.len = LYS_PARAM_VARIABLE_SIZE
            THEN IF p.param_type = LYS_PARAM_TYPE_ARRAY
                 THEN LET v == verify_array_len(p)
                      IN IF v.err # LYS_ERROR_SUCCESS THEN [w EXCEPT !.err = v.err]
                         ELSE CopyIn(PutByte(PutByte(w, LYS_PARAM_TYPE_ARRAY), p.inner),
                                     p.data, v.len)
                 ELSE IF p.param_type = LYS_PARAM_TYPE_STRING
                 THEN LET v == verify_str_len(p)
                      IN IF v.err # LYS_ERROR_SUCCESS THEN [w EXCEPT !.err = v.err]
                         ELSE CopyIn(PutByte(w, p.param_type), p.data, v.len)
                 ELSE [w EXCEPT !.err = LYS_ERROR_INVALID_PARAM]
            ELSE IF LYS_MAX_MSG_LEN < (LYS_DATA_INDEX + l.len)
                 THEN [w EXCEPT !.err = LYS_ERROR_INVALID_PARAM]
                 ELSE CopyIn(PutByte(w, p.param_type), p.data, u32(l.len))

\* a msg_create whose LEN byte does not count the LEN byte itself
msg_create_len_excludes_itself(buf, op, p) ==
    LET w0 == PutByte([buf |-> buf, idx |-> LYS_OP_INDEX, err |-> LYS_ERROR_SUCCESS,
                       oob |-> FALSE], op)
        w1 == IF op \in {LYS_OP_PARAM, LYS_OP_LOG} THEN param_add(w0, p) ELSE w0
    IN IF w1.err # LYS_ERROR_SUCCESS THEN w1
       ELSE [w1 EXCEPT !.buf = [@ EXCEPT ![LYS_LEN_INDEX] = w1.idx - 1]]

\* msg_create(op, p_param) applied to the scratch buffer buf: the result is
\* [buf, idx, err, oob], the new m_buf and m_buf_index and the return value
msg_create(buf, op, p) ==
    LET w0 == PutByte([buf |-> buf, idx |-> LYS_OP_INDEX, err |-> LYS_ERROR_SUCCESS,
                       oob |-> FALSE], op)
        w1 == IF op \in {LYS_OP_UNKNOWN, LYS_OP_INIT, LYS_OP_START, LYS_OP_RESULT,
                         LYS_OP_FINISHED, LYS_OP_ACK}
              THEN w0
              ELSE IF op \in {LYS_OP_PARAM, LYS_OP_LOG} THEN param_add(w0, p)
              ELSE [w0 EXCEPT !.err = LYS_ERROR_INVALID_PARAM]
    IN IF w1.err # LYS_ERROR_SUCCESS THEN w1
       ELSE [w1 EXCEPT !.buf = [@ EXCEPT ![LYS_LEN_INDEX] = w1.idx]]

(***************************************************************************)
(* Decoding.  The decoded view (m_param, m_str, m_array) is the record     *)
(* mp = [param_type, str_len, array_type, item_count]; its data pointers   *)
(* are fixed offsets into m_buf.                                           *)
(***************************************************************************)
\* param_parse divides by param_len = 0 when the inner tag of an ARRAY frame is
\* STRING or ARRAY (line 237): undefined behaviour
DividesByZero(buf) ==
    /\ buf[LYS_OP_INDEX] \in {LYS_OP_PARAM, LYS_OP_LOG}
    /\ buf[LYS_PARAM_TYPE_INDEX] = LYS_PARAM_TYPE_ARRAY
    /\ buf[LYS_ARRAY_PARAM_TYPE_INDEX] \in {LYS_PARAM_TYPE_STRING, LYS_PARAM_TYPE_ARRAY}

\* What a build that does not trap can produce for x % 0 and x / 0: a
\* remainder that is zero or not, and a quotient.
DivZeroResults(buf) ==
    IF DividesByZero(buf)
    THEN {[rem |-> r, quot |-> q] : r \in {0, 1}, q \in {u32(0), u32(1)}}
    ELSE {[rem |-> 0, quot |-> u32(0)]}

\* param_parse() on the buffer buf and the static view mp; dz is the outcome of
\* a division by zero
param_parse(buf, mp, dz) ==
    IF buf[LYS_PARAM_TYPE_INDEX] = LYS_PARAM_TYPE_ARRAY
    THEN LET mp1 == [mp EXCEPT !.param_type = LYS_PARAM_TYPE_ARRAY,
                               !.array_type = buf[LYS_ARRAY_PARAM_TYPE_INDEX]]
             data_len == u32_sub(u32(buf[LYS_LEN_INDEX]), u32(LYS_ARRAY_DATA_INDEX))
             l == lys_param_len_lookup(mp1.array_type)
             rem == IF l.len = 0 THEN dz.rem ELSE u32_mod(data_len, l.len)
             quot == IF l.len = 0 THEN dz.quot ELSE u32_div(data_len, l.len)
         IN IF l.err # LYS_ERROR_SUCCESS THEN [err |-> l.err, mp |-> mp1]
            ELSE IF rem # 0 THEN [err |-> LYS_ERROR_INVALID_PARAM, mp |-> mp1]
            ELSE [err |-> LYS_ERROR_SUCCESS, mp |-> [mp1 EXCEPT !.item_count = quot]]
    ELSE LET data_len == u32_sub(u32(buf[LYS_LEN_INDEX]), u32(LYS_DATA_INDEX))
         IN IF buf[LYS_PARAM_TYPE_INDEX] = LYS_PARAM_TYPE_STRING
            THEN [err |-> LYS_ERROR_SUCCESS,
                  mp |-> [mp EXCEPT !.param_type = LYS_PARAM_TYPE_STRING, !.str_len = data_len]]
            ELSE LET mp1 == [mp EXCEPT !.param_type = buf[LYS_PARAM_TYPE_INDEX]]
                     l == lys_param_len_lookup(mp1.param_type)
                 IN IF l.err # LYS_ERROR_SUCCESS THEN [err |-> l.err, mp |-> mp1]
                    ELSE IF u32(l.len) # data_len
                    THEN [err |-> LYS_ERROR_INVALID_PARAM, mp |-> mp1]
                    ELSE [err |-> LYS_ERROR_SUCCESS, mp |-> mp1]

\* msg_parse(&op, &p_param): [err, op, has_param, mp]
msg_parse(buf, mp, dz) ==
    LET o == buf[LYS_OP_INDEX]
    IN IF o \in {LYS_OP_UNKNOWN, LYS_OP_INIT, LYS_OP_START, LYS_OP_RESULT,
                 LYS_OP_FINISHED, LYS_OP_ACK}
       THEN [err |-> LYS_ERROR_SUCCESS, op |-> o, has_param |-> FALSE, mp |-> mp]
       ELSE IF o \in {LYS_OP_PARAM, LYS_OP_LOG}
       THEN LET r == param_parse(buf, mp, dz)
            IN [err |-> r.err, op |-> o, has_param |-> (r.err = LYS_ERROR_SUCCESS), mp |-> r.mp]
       ELSE [err |-> LYS_ERROR_INVALID_PARAM, op |-> o, has_param |-> FALSE, mp |-> mp]

\* msg_complete() for the buffer buf at fill level idx
msg_complete(buf, idx) ==
    ~((LYS_LEN_INDEX >= idx) \/ (buf[LYS_LEN_INDEX] > idx))

\* a wait_for_ack() that takes any frame that decodes for the ACK
wait_for_ack_any_op(buf, mp, dz) == msg_parse(buf, mp, dz).err
\* wait_for_ack() once msg_receive has a complete frame: the return value
wait_for_ack(buf, mp, dz) ==
    LET r == msg_parse(buf, mp, dz)
    IN IF r.err # LYS_ERROR_SUCCESS THEN r.err
       ELSE IF r.op # LYS_OP_ACK THEN LYS_ERROR_INVALID_STATE
       ELSE LYS_ERROR_SUCCESS

(***************************************************************************)
(* Copy-in routines.  The result is [err, cell]: the return value and what *)
(* the caller's destination storage then holds.                            *)
(***************************************************************************)
\* the n bytes of m_buf from offset at
BufBytes(buf, at, n) == [k \in 1..n |-> buf[at + k - 1]]

\* str_copy(lhs, rhs) with rhs the decoded string view
str_copy(cell, buf, mp) ==
    IF u32_lt(u32(LYS_MAX_STR_LEN), mp.str_len) \/ mp.str_len = u32(0)
    THEN [err |-> LYS_ERROR_INVALID_PARAM, cell |-> cell]
    ELSE [err |-> LYS_ERROR_SUCCESS,
          cell |-> [len |-> u32_val(mp.str_len), type |-> LYS_PARAM_TYPE_STRING,
                    bytes |-> BufBytes(buf, LYS_DATA_INDEX,
                                       Min(u32_val(mp.str_len), LYS_MAX_MSG_LEN - LYS_DATA_INDEX))]]

\* array_copy(lhs, rhs) with rhs the decoded array view
array_copy(cell, buf, mp) ==
    LET l == lys_param_len_lookup(mp.array_type)
        data_len == u32_mul(mp.item_count, l.len)
    IN IF l.err # LYS_ERROR_SUCCESS THEN [err |-> l.err, cell |-> cell]
       ELSE IF l.len = LYS_PARAM_VARIABLE_SIZE \/ l.len = 0
       THEN [err |-> LYS_ERROR_INVALID_PARAM, cell |-> cell]
       ELSE IF u32_lt(u32(LYS_MAX_ARRAY_LEN), data_len)
       THEN [err |-> LYS_ERROR_INVALID_PARAM, cell |-> cell]
       ELSE [err |-> LYS_ERROR_SUCCESS,
             cell |-> [len |-> u32_val(mp.item_count), type |-> mp.array_type,
                       bytes |-> BufBytes(buf, LYS_ARRAY_DATA_INDEX,
                                          Min(u32_val(data_len),
                                              LYS_MAX_MSG_LEN - LYS_ARRAY_DATA_INDEX))]]

\* the scalar copy of lys_params_receive (lines 527-544)
scalar_copy(cell, buf, expected_type) ==
    LET l == lys_param_len_lookup(expected_type)
    IN [err |-> LYS_ERROR_SUCCESS,
        cell |-> [len |-> l.len, type |-> expected_type,
                  bytes |-> BufBytes(buf, LYS_DATA_INDEX, l.len)]]

\* caller storage that nothing was copied into
EmptyCell == [len |-> 0, type |-> NoOp, bytes |-> <<>>]

(***************************************************************************)
(* State                                                                   *)
(***************************************************************************)
VARIABLES
    m_buf,          \* the scratch buffer, indexed from 0
    m_buf_index,    \* its write index / receive fill level (uint8_t)
    m_state,        \* lys_state_t
    m_error,        \* the sticky error flag
    m_param,        \* the static decoded view m_param / m_str / m_array
    down,           \* bytes the host wrote that SEGGER_RTT_Read has not returned yet
    up,             \* bytes SEGGER_RTT_Write accepted that the host has yet to act on
    pc,             \* where the device's single thread of control is
    api,            \* the public function the application called
    arg,            \* its argument: a list of lys_param_t
    i,              \* the loop index of lys_params_receive / lys_results_send
    err,            \* the value the innermost public function returned
    op,             \* the op lys_param_wait decoded
    param_set,      \* *p_param_set
    bytes_written,  \* the local of msg_send / ack_msg_send
    cells,          \* the destination storage of lys_params_receive
    env,            \* the environment: the application and the host
    pre,            \* m_state and m_error when the current call was made
    h               \* what was on the wire: the observations the properties use

engine == <<m_buf, m_buf_index, m_state, m_error, m_param>>
chan == <<down, up>>
locals == <<i, op, param_set, bytes_written, cells>>
vars == <<m_buf, m_buf_index, m_state, m_error, m_param, down, up, pc, api, arg, i, err, op,
          param_set, bytes_written, cells, env, pre, h>>

\* error() that leaves the state where it is
error_keeps_state == [m_error |-> TRUE, m_state |-> m_state]
\* error() that toggles the flag it should set
error_toggles_flag == [m_error |-> ~m_error, m_state |-> LYS_STATE_UNKNOWN]
\* error(): what it assigns to m_error and m_state
error == [m_error |-> TRUE, m_state |-> LYS_STATE_UNKNOWN]

SendPcs == {"pw_init_send", "ps_result_send", "ps_param_send", "fi_result_send",
            "fi_fin_send", "es_send", "ls_send", "codec_send"}
RecvPcs == {"pw_init_recv", "pw_recv", "ps_result_recv", "ps_param_recv", "fi_result_recv",
            "fi_fin_recv", "es_recv", "ls_recv", "codec_recv"}
\* wait_for_ack follows msg_send in msg_send_and_ack and in lys_error_send; in
\* the codec runs the frame msg_send wrote is then on the wire
RecvOf(p) ==
    CASE p = "pw_init_send" -> "pw_init_recv"
      [] p = "ps_result_send" -> "ps_result_recv"
      [] p = "ps_param_send" -> "ps_param_recv"
      [] p = "fi_result_send" -> "fi_result_recv"
      [] p = "fi_fin_send" -> "fi_fin_recv"
      [] p = "es_send" -> "es_recv"
      [] p = "ls_send" -> "ls_recv"
      [] p = "codec_send" -> "codec_wire"

NoPre == [m_state |-> LYS_STATE_UNKNOWN, m_error |-> FALSE]
NoView == [param_type |-> 0, str_len |-> u32(0), array_type |-> 0, item_count |-> u32(0)]

\* the observations of one call, and of the session since lys_init
\*   call_frames  the ops of the frames the device completed, in order
\*   call_wrote   SEGGER_RTT_Write accepted a byte
\*   call_read    SEGGER_RTT_Read returned a byte
\*   tx_op        the op of the last frame the device completed
\*   rx_op, rx_err  what msg_parse made of the last frame received
\*   rx_wait      that frame was received by msg_receive_and_ack
\*   ack_owed     it decoded, and the ACK for it is not complete yet
\*   ack_sent     the first bytes the device wrote after it decoded
\*   fin_acked    a FINISHED frame was sent and an ACK received for it
\*   nacked       a frame the device sent was answered by something else than an ACK
\*   tx_pending   the device completed a frame and no frame has arrived since
NoCall == [call_frames |-> <<>>, call_wrote |-> FALSE, call_read |-> FALSE,
           tx_op |-> NoOp, rx_op |-> NoOp, rx_err |-> LYS_ERROR_SUCCESS,
           rx_wait |-> FALSE, ack_owed |-> FALSE, ack_sent |-> <<>>]
NoSession == [fin_acked |-> FALSE, nacked |-> FALSE]
NoWire == [tx_pending |-> FALSE]
InitH == [call |-> NoCall, session |-> NoSession, wire |-> NoWire]

\* h after SEGGER_RTT_Write accepted bytes
HWrote(hh, bytes) ==
    LET sent == IF hh.call.ack_owed THEN hh.call.ack_sent \o bytes ELSE hh.call.ack_sent
    IN [hh EXCEPT
          !.call.call_wrote = TRUE,
          !.call.ack_sent = sent,
          !.call.ack_owed = @ /\ Len(sent) < LYS_MSG_NO_PARAM_LEN]

\* h after the device has written the last byte of the frame with op o
HFrame(hh, o) ==
    [hh EXCEPT
       !.call.tx_op = o,
       !.wire.tx_pending = (o # LYS_OP_ACK),
       !.call.call_frames = Append(@, o)]

\* h after msg_parse returned r for a received frame
HParsed(hh, r) ==
    [hh EXCEPT !.call.rx_op = r.op, !.call.rx_err = r.err, !.call.rx_wait = FALSE,
               !.call.ack_owed = FALSE, !.call.ack_sent = <<>>]

\* h after msg_receive_and_ack got r from msg_parse
HWaited(hh, r) ==
    [HParsed(hh, r) EXCEPT !.call.rx_wait = TRUE,
                           !.call.ack_owed = (r.err = LYS_ERROR_SUCCESS)]

\* h after wait_for_ack returned e for the frame msg_parse decoded as r
HAcked(hh, r, e) ==
    [HParsed(hh, r) EXCEPT
       !.session.fin_acked = @ \/ (e = LYS_ERROR_SUCCESS /\ hh.call.tx_op = LYS_OP_FINISHED),
       !.session.nacked = @ \/ (e # LYS_ERROR_SUCCESS)]

\* The environment.
\*   host     "any": a host that writes anything; "main": one that follows the protocol
\*   app      "any": an application that calls anything; else where main() is
\*   greeted  the host has read the INIT frame
\*   owe      the host has read a frame it has yet to ACK
\*   sent     how many of its PARAM and START frames the host has written
\*   acked    how many ACK frames the host has read
\*   v32, v8  the values the host passes to main()
AnyEnv == [host |-> "any", app |-> "any", greeted |-> FALSE, owe |-> FALSE, sent |-> 0,
           acked |-> 0, v32 |-> <<>>, v8 |-> <<>>]

Init ==
    /\ m_buf = [k \in 0..(LYS_MAX_MSG_LEN - 1) |-> 0]
    /\ m_buf_index = 0
    /\ m_state = LYS_STATE_UNKNOWN
    /\ m_error = FALSE
    /\ m_param = NoView
    /\ down = <<>>
    /\ up = <<>>
    /\ pc = "idle"
    /\ api = "none"
    /\ arg = <<>>
    /\ i = 0
    /\ err = LYS_ERROR_SUCCESS
    /\ op = NoOp
    /\ param_set = FALSE
    /\ bytes_written = 0
    /\ cells = <<>>
    /\ env = AnyEnv
    /\ pre = NoPre
    /\ h = InitH

(***************************************************************************)
(* Transport loops                                                         *)
(***************************************************************************)
\* the bytes buf[from .. from + k - 1] as a sequence
Slice(buf, from, k) == [n \in 1..k |-> buf[from + n - 1]]

\* The up buffer after SEGGER_RTT_Write accepted bytes.  The host empties the
\* up buffer on its own; a host that follows the protocol keeps the bytes until
\* it has acted on them, any other host keeps nothing.
Written(bytes) == IF env.host = "any" THEN <<>> ELSE up \o bytes

\* One SEGGER_RTT_Write call of msg_send (lines 195-200) that accepts k bytes.
\* The call that accepts the last byte ends the loop; msg_send_and_ack and
\* lys_error_send then enter wait_for_ack, whose msg_receive clears m_buf_index.
msg_send ==
    /\ pc \in SendPcs
    /\ \E k \in 1..Min(m_buf_index - bytes_written, UpSize) :
         /\ up' = Written(Slice(m_buf, bytes_written, k))
         /\ IF bytes_written + k < m_buf_index
            THEN /\ bytes_written' = bytes_written + k
                 /\ h' = HWrote(h, Slice(m_buf, bytes_written, k))
                 /\ UNCHANGED <<pc, m_buf_index>>
            ELSE /\ bytes_written' = 0
                 /\ pc' = RecvOf(pc)
                 /\ m_buf_index' = 0
                 /\ h' = HFrame(HWrote(h, Slice(m_buf, bytes_written, k)),
                                m_buf[LYS_OP_INDEX])
    /\ UNCHANGED <<m_buf, m_state, m_error, m_param, down, api, arg, i, err, op, param_set,
                   cells, env, pre>>

\* where lys_param_wait returns to
PwRet == IF api = "lys_params_receive" THEN "pr_ret" ELSE "ret"
\* where lys_param_send returns to
PsRet == IF api = "lys_results_send" THEN "rs_ret" ELSE "ret"

\* One SEGGER_RTT_Write call of ack_msg_send (lines 208-213) that accepts k
\* bytes.  After the last byte msg_receive_and_ack returns success and
\* lys_param_wait runs its switch (lines 476-496).
ack_msg_send ==
    /\ pc = "pw_ack"
    /\ \E k \in 1..Min(LYS_MSG_NO_PARAM_LEN - bytes_written, UpSize) :
         /\ up' = Written(SubSeq(m_ack_buf, bytes_written + 1, bytes_written + k))
         /\ IF bytes_written + k < LYS_MSG_NO_PARAM_LEN
            THEN /\ bytes_written' = bytes_written + k
                 /\ h' = HWrote(h, SubSeq(m_ack_buf, bytes_written + 1, bytes_written + k))
                 /\ UNCHANGED <<pc, err, param_set, m_state, m_error>>
            ELSE /\ bytes_written' = 0
                 /\ h' = HFrame(HWrote(h, SubSeq(m_ack_buf, bytes_written + 1,
                                                 bytes_written + k)),
                                m_ack_buf[LYS_OP_INDEX + 1])
                 /\ pc' = PwRet
                 /\ CASE op = LYS_OP_START ->
                           /\ param_set' = FALSE
                           /\ m_state' = LYS_STATE_RUNNING
                           /\ err' = LYS_ERROR_SUCCESS
                           /\ UNCHANGED m_error
                      [] op = LYS_OP_PARAM ->
                           /\ param_set' = TRUE
                           /\ err' = LYS_ERROR_SUCCESS
                           /\ UNCHANGED <<m_state, m_error>>
                      [] OTHER ->
                           /\ param_set' = FALSE
                           /\ m_error' = error.m_error
                           /\ m_state' = error.m_state
                           /\ err' = LYS_ERROR_INVALID_STATE
    /\ UNCHANGED <<m_buf, m_buf_index, m_param, down, api, arg, i, op, cells, env, pre>>

\* a read that asks for LYS_MAX_MSG_LEN bytes whatever the fill level
msg_receive_size_of_buffer(idx) == LYS_MAX_MSG_LEN
\* the number of bytes msg_receive asks SEGGER_RTT_Read for (line 328)
msg_receive_size(idx) == LYS_MAX_MSG_LEN - idx

\* One SEGGER_RTT_Read call of msg_receive (lines 324-329) that returns k bytes
msg_receive ==
    /\ pc \in RecvPcs
    /\ ~msg_complete(m_buf, m_buf_index)
    /\ \E k \in 1..Min(Len(down), msg_receive_size(m_buf_index)) :
         /\ m_buf' = [n \in 0..(LYS_MAX_MSG_LEN - 1) |->
                        IF n >= m_buf_index /\ n < m_buf_index + k
                        THEN down[n - m_buf_index + 1] ELSE m_buf[n]]
         /\ m_buf_index' = m_buf_index + k
         /\ down' = SubSeq(down, k + 1, Len(down))
         /\ h' = [h EXCEPT !.call.call_read = TRUE,
                           !.wire.tx_pending = @ /\ ~msg_complete(m_buf', m_buf_index')]
    /\ UNCHANGED <<m_state, m_error, m_param, up, pc, api, arg, i, err, op, param_set,
                   bytes_written, cells, env, pre>>

\* The division by zero of param_parse (line 237) on a build that traps
HardFault ==
    /\ pc \in RecvPcs
    /\ msg_complete(m_buf, m_buf_index)
    /\ DividesByZero(m_buf)
    /\ pc' = "fault"
    /\ UNCHANGED <<engine, chan, api, arg, i, err, op, param_set, bytes_written, cells, env,
                   pre, h>>

(***************************************************************************)
(* lys_init, and the application calling and leaving a public function     *)
(***************************************************************************)
lys_init ==
    /\ pc = "idle"
    /\ env.app \in {"any", "start"}
    /\ env' = [env EXCEPT !.app = IF @ = "start" THEN "receive" ELSE @]
    /\ m_buf_index' = 0
    /\ m_state' = LYS_STATE_UNKNOWN
    /\ m_error' = FALSE
    /\ h' = [h EXCEPT !.session = NoSession]
    /\ UNCHANGED <<m_buf, m_param, chan, pc, api, arg, i, err, op, param_set, bytes_written,
                   cells, pre>>

EntryPc(f) ==
    CASE f = "lys_param_wait" -> "pw_begin"
      [] f = "lys_params_receive" -> "pr_loop"
      [] f = "lys_param_send" -> "ps_begin"
      [] f = "lys_results_send" -> "rs_loop"
      [] f = "lys_finish" -> "fi_begin"
      [] f = "lys_error_send" -> "es_begin"
      [] f = "lys_log_send" -> "ls_begin"

\* the application calls public function f with the argument list a
Call(f, a) ==
    /\ pc = "idle"
    /\ pc' = EntryPc(f)
    /\ api' = f
    /\ arg' = a
    /\ i' = 0
    /\ cells' = IF f = "lys_params_receive" THEN [n \in 1..Len(a) |-> EmptyCell] ELSE <<>>
    /\ pre' = [m_state |-> m_state, m_error |-> m_error]
    /\ h' = [h EXCEPT !.call = NoCall]
    /\ UNCHANGED <<engine, chan, err, op, param_set, bytes_written>>

\* The public function has returned err to the application, which goes on and
\* keeps the storage keep of what it passed.  The decoded view is valid only
\* until then.
Leave(keep) ==
    /\ pc = "ret"
    /\ pc' = "idle"
    /\ api' = "none"
    /\ arg' = <<>>
    /\ i' = 0
    /\ err' = LYS_ERROR_SUCCESS
    /\ op' = NoOp
    /\ param_set' = FALSE
    /\ cells' = keep
    /\ pre' = NoPre
    /\ h' = [h EXCEPT !.call = NoCall]
    /\ m_param' = NoView
    /\ UNCHANGED <<m_buf, m_buf_index, m_state, m_error, chan, bytes_written>>

Return ==
    /\ env.app = "any"
    /\ Leave(<<>>)
    /\ UNCHANGED env

(***************************************************************************)
(* lys_param_wait                                                          *)
(***************************************************************************)
\* a test at line 453 that forgets the sticky error
lys_param_wait_greets_despite_error(st, e) == LYS_STATE_UNKNOWN = st
\* the test at line 453: lys_param_wait sends INIT first
lys_param_wait_greets(st, e) == (LYS_STATE_UNKNOWN = st) /\ ~e

\* lines 453-467, up to the first transport call
lys_param_wait_begin ==
    /\ pc = "pw_begin"
    /\ IF lys_param_wait_greets(m_state, m_error)
       THEN LET c == msg_create(m_buf, LYS_OP_INIT, NullParam)
            IN /\ m_buf' = c.buf
               /\ m_buf_index' = c.idx
               /\ IF c.err # LYS_ERROR_SUCCESS
                  THEN /\ m_error' = error.m_error
                       /\ m_state' = error.m_state
                       /\ pc' = PwRet
                       /\ err' = c.err
                  ELSE /\ pc' = "pw_init_send"
                       /\ UNCHANGED <<m_state, m_error, err>>
       ELSE IF LYS_STATE_WAIT_FOR_START # m_state
       THEN /\ pc' = PwRet
            /\ err' = LYS_ERROR_INVALID_STATE
            /\ UNCHANGED <<m_buf, m_buf_index, m_state, m_error>>
       ELSE /\ pc' = "pw_recv"
            /\ m_buf_index' = 0
            /\ UNCHANGED <<m_buf, m_state, m_error, err>>
    /\ bytes_written' = 0
    /\ UNCHANGED <<m_param, chan, api, arg, i, op, param_set, cells, env, pre, h>>

\* lines 455-469 once the response to INIT is complete: wait_for_ack returns
lys_param_wait_init_acked ==
    /\ pc = "pw_init_recv"
    /\ msg_complete(m_buf, m_buf_index)
    /\ \E dz \in DivZeroResults(m_buf) :
         LET r == msg_parse(m_buf, m_param, dz)
             e == wait_for_ack(m_buf, m_param, dz)
         IN /\ m_param' = r.mp
            /\ h' = HAcked(h, r, e)
            /\ IF e # LYS_ERROR_SUCCESS
               THEN /\ m_error' = error.m_error
                    /\ m_state' = error.m_state
                    /\ pc' = PwRet
                    /\ err' = e
                    /\ UNCHANGED m_buf_index
               ELSE /\ m_state' = LYS_STATE_WAIT_FOR_START
                    /\ pc' = "pw_recv"
                    /\ m_buf_index' = 0
                    /\ UNCHANGED <<m_error, err>>
    /\ UNCHANGED <<m_buf, chan, api, arg, locals, env, pre>>

\* lines 469-474 once a frame is complete: msg_receive_and_ack decodes it
lys_param_wait_received ==
    /\ pc = "pw_recv"
    /\ msg_complete(m_buf, m_buf_index)
    /\ \E dz \in DivZeroResults(m_buf) :
         LET r == msg_parse(m_buf, m_param, dz)
         IN /\ m_param' = r.mp
            /\ IF r.err # LYS_ERROR_SUCCESS
               THEN /\ m_error' = error.m_error
                    /\ m_state' = error.m_state
                    /\ pc' = PwRet
                    /\ err' = r.err
                    /\ h' = HWaited(h, r)
                    /\ UNCHANGED op
               ELSE /\ op' = r.op
                    /\ pc' = "pw_ack"
                    /\ h' = HWaited(h, r)
                    /\ UNCHANGED <<m_state, m_error, err>>
    /\ bytes_written' = 0
    /\ UNCHANGED <<m_buf, m_buf_index, chan, api, arg, i, param_set, cells, env, pre>>

(***************************************************************************)
(* lys_params_receive                                                      *)
(***************************************************************************)
\* the calls of lys_param_wait at lines 512 and 568
lys_params_receive_loop ==
    /\ pc = "pr_loop"
    /\ pc' = "pw_begin"
    /\ UNCHANGED <<engine, chan, api, arg, locals, err, env, pre, h>>

\* lines 513-564 after the call in the loop, lines 569-580 after the last call
lys_params_receive_next ==
    /\ pc = "pr_ret"
    /\ IF i < Len(arg)
       THEN /\ UNCHANGED <<m_state, m_error>>
            /\ LET expected_type == arg[i + 1].param_type
                   copied ==
                       CASE expected_type \in {LYS_PARAM_TYPE_UINT32, LYS_PARAM_TYPE_INT32,
                                               LYS_PARAM_TYPE_UINT8, LYS_PARAM_TYPE_INT8,
                                               LYS_PARAM_TYPE_BOOL} ->
                                scalar_copy(cells[i + 1], m_buf, expected_type)
                         [] expected_type = LYS_PARAM_TYPE_STRING ->
                                str_copy(cells[i + 1], m_buf, m_param)
                         [] expected_type = LYS_PARAM_TYPE_ARRAY ->
                                array_copy(cells[i + 1], m_buf, m_param)
                         [] OTHER -> [err |-> LYS_ERROR_INVALID_PARAM, cell |-> cells[i + 1]]
               IN IF err # LYS_ERROR_SUCCESS
                  THEN /\ pc' = "ret"
                       /\ UNCHANGED <<err, i, cells>>
                  ELSE IF ~param_set \/ (expected_type # m_param.param_type)
                  THEN /\ pc' = "ret"
                       /\ err' = LYS_ERROR_INVALID_PARAM
                       /\ UNCHANGED <<i, cells>>
                  ELSE /\ cells' = [cells EXCEPT ![i + 1] = copied.cell]
                       /\ IF copied.err # LYS_ERROR_SUCCESS
                          THEN /\ pc' = "ret"
                               /\ err' = copied.err
                               /\ UNCHANGED i
                          ELSE /\ pc' = "pr_loop"
                               /\ i' = i + 1
                               /\ UNCHANGED err
       ELSE /\ pc' = "ret"
            /\ UNCHANGED <<i, cells>>
            /\ IF err # LYS_ERROR_SUCCESS
               THEN UNCHANGED <<err, m_state, m_error>>
               ELSE IF param_set
               THEN /\ m_error' = error.m_error
                    /\ m_state' = error.m_state
                    /\ err' = LYS_ERROR_INVALID_STATE
               ELSE UNCHANGED <<err, m_state, m_error>>
    /\ UNCHANGED <<m_buf, m_buf_index, m_param, chan, api, arg, op, param_set, bytes_written,
                   env, pre, h>>

(***************************************************************************)
(* lys_param_send, lys_results_send, lys_finish                            *)
(***************************************************************************)
\* the parameter of the lys_param_send in progress
SendArg == IF api = "lys_results_send" THEN arg[i + 1] ELSE arg[1]

\* msg_send_and_ack(LYS_OP_PARAM, p_param) of line 604 up to its first transport
\* call, with error() and the return when msg_create fails
\* st is the state the engine is in when that call is made.
lys_param_send_param(st) ==
    LET c == msg_create(m_buf, LYS_OP_PARAM, SendArg)
    IN /\ m_buf' = c.buf
       /\ m_buf_index' = c.idx
       /\ IF c.err # LYS_ERROR_SUCCESS
          THEN /\ m_error' = error.m_error
               /\ m_state' = error.m_state
               /\ pc' = PsRet
               /\ err' = c.err
          ELSE /\ pc' = "ps_param_send"
               /\ m_state' = st
               /\ UNCHANGED <<m_error, err>>

\* a test at line 598 that refuses only the state UNKNOWN
lys_param_send_refused_in_unknown(st) == LYS_STATE_UNKNOWN = st
\* a test at line 598 that refuses only the state WAIT_FOR_START
lys_param_send_refused_in_wait_for_start(st) == LYS_STATE_WAIT_FOR_START = st
\* the test at line 598: lys_param_send returns InvalidState
lys_param_send_refused(st) == LYS_STATE_RESULT # st

\* lines 588-604, up to the first transport call
lys_param_send_begin ==
    /\ pc = "ps_begin"
    /\ IF LYS_STATE_RUNNING = m_state
       THEN LET c == msg_create(m_buf, LYS_OP_RESULT, NullParam)
            IN /\ m_buf' = c.buf
               /\ m_buf_index' = c.idx
               /\ IF c.err # LYS_ERROR_SUCCESS
                  THEN /\ m_error' = error.m_error
                       /\ m_state' = error.m_state
                       /\ pc' = PsRet
                       /\ err' = c.err
                  ELSE /\ pc' = "ps_result_send"
                       /\ UNCHANGED <<m_state, m_error, err>>
       ELSE IF lys_param_send_refused(m_state)
       THEN /\ pc' = PsRet
            /\ err' = LYS_ERROR_INVALID_STATE
            /\ UNCHANGED <<m_buf, m_buf_index, m_state, m_error>>
       ELSE lys_param_send_param(m_state)
    /\ bytes_written' = 0
    /\ UNCHANGED <<m_param, chan, api, arg, i, op, param_set, cells, env, pre, h>>

\* lines 590-604 once the response to RESULT is complete
lys_param_send_result_acked ==
    /\ pc = "ps_result_recv"
    /\ msg_complete(m_buf, m_buf_index)
    /\ \E dz \in DivZeroResults(m_buf) :
         LET r == msg_parse(m_buf, m_param, dz)
             e == wait_for_ack(m_buf, m_param, dz)
         IN /\ m_param' = r.mp
            /\ h' = HAcked(h, r, e)
            /\ IF e # LYS_ERROR_SUCCESS
               THEN /\ m_error' = error.m_error
                    /\ m_state' = error.m_state
                    /\ pc' = PsRet
                    /\ err' = e
                    /\ UNCHANGED <<m_buf, m_buf_index>>
               ELSE lys_param_send_param(LYS_STATE_RESULT)
    /\ UNCHANGED <<chan, api, arg, locals, env, pre>>

\* lines 604-610 once the response to PARAM is complete
lys_param_send_param_acked ==
    /\ pc = "ps_param_recv"
    /\ msg_complete(m_buf, m_buf_index)
    /\ \E dz \in DivZeroResults(m_buf) :
         LET r == msg_parse(m_buf, m_param, dz)
             e == wait_for_ack(m_buf, m_param, dz)
         IN /\ m_param' = r.mp
            /\ h' = HAcked(h, r, e)
            /\ pc' = PsRet
            /\ err' = e
            /\ IF e # LYS_ERROR_SUCCESS
               THEN /\ m_error' = error.m_error
                    /\ m_state' = error.m_state
               ELSE UNCHANGED <<m_state, m_error>>
    /\ UNCHANGED <<m_buf, m_buf_index, chan, api, arg, locals, env, pre>>

\* the loop test of lys_results_send (line 618) and the calls at lines 620, 626
lys_results_send_loop ==
    /\ pc = "rs_loop"
    /\ pc' = IF i < Len(arg) THEN "ps_begin" ELSE "fi_begin"
    /\ UNCHANGED <<engine, chan, api, arg, locals, err, env, pre, h>>

\* lines 621-624 after lys_param_send returned
lys_results_send_next ==
    /\ pc = "rs_ret"
    /\ IF err # LYS_ERROR_SUCCESS
       THEN /\ pc' = "ret"
            /\ UNCHANGED i
       ELSE /\ pc' = "rs_loop"
            /\ i' = i + 1
    /\ UNCHANGED <<engine, chan, api, arg, err, op, param_set, bytes_written, cells, env,
                   pre, h>>

\* msg_send_and_ack(LYS_OP_FINISHED, NULL) of line 650 up to its first transport
\* call; st is the state the engine is in when that call is made
lys_finish_finished(st) ==
    LET c == msg_create(m_buf, LYS_OP_FINISHED, NullParam)
    IN /\ m_buf' = c.buf
       /\ m_buf_index' = c.idx
       /\ IF c.err # LYS_ERROR_SUCCESS
          THEN /\ m_error' = error.m_error
               /\ m_state' = error.m_state
               /\ pc' = "ret"
               /\ err' = c.err
          ELSE /\ pc' = "fi_fin_send"
               /\ m_state' = st
               /\ UNCHANGED <<m_error, err>>

\* lines 634-650, up to the first transport call
lys_finish_begin ==
    /\ pc = "fi_begin"
    /\ IF LYS_STATE_RUNNING = m_state
       THEN LET c == msg_create(m_buf, LYS_OP_RESULT, NullParam)
            IN /\ m_buf' = c.buf
               /\ m_buf_index' = c.idx
               /\ IF c.err # LYS_ERROR_SUCCESS
                  THEN /\ m_error' = error.m_error
                       /\ m_state' = error.m_state
                       /\ pc' = "ret"
                       /\ err' = c.err
                  ELSE /\ pc' = "fi_result_send"
                       /\ UNCHANGED <<m_state, m_error, err>>
       ELSE IF LYS_STATE_RESULT # m_state
       THEN /\ pc' = "ret"
            /\ err' = LYS_ERROR_INVALID_STATE
            /\ UNCHANGED <<m_buf, m_buf_index, m_state, m_error>>
       ELSE lys_finish_finished(m_state)
    /\ bytes_written' = 0
    /\ UNCHANGED <<m_param, chan, api, arg, i, op, param_set, cells, env, pre, h>>

\* lines 636-650 once the response to RESULT is complete
lys_finish_result_acked ==
    /\ pc = "fi_result_recv"
    /\ msg_complete(m_buf, m_buf_index)
    /\ \E dz \in DivZeroResults(m_buf) :
         LET r == msg_parse(m_buf, m_param, dz)
             e == wait_for_ack(m_buf, m_param, dz)
         IN /\ m_param' = r.mp
            /\ h' = HAcked(h, r, e)
            /\ IF e # LYS_ERROR_SUCCESS
               THEN /\ m_error' = error.m_error
                    /\ m_state' = error.m_state
                    /\ pc' = "ret"
                    /\ err' = e
                    /\ UNCHANGED <<m_buf, m_buf_index>>
               ELSE lys_finish_finished(LYS_STATE_RESULT)
    /\ UNCHANGED <<chan, api, arg, locals, env, pre>>

\* a lys_finish that ends in the state the enumeration names for it
lys_finish_state_finished == LYS_STATE_FINISHED
\* the state lys_finish assigns at the end (line 656)
lys_finish_state == LYS_STATE_RESULT

\* lines 650-657 once the response to FINISHED is complete
lys_finish_finished_acked ==
    /\ pc = "fi_fin_recv"
    /\ msg_complete(m_buf, m_buf_index)
    /\ \E dz \in DivZeroResults(m_buf) :
         LET r == msg_parse(m_buf, m_param, dz)
             e == wait_for_ack(m_buf, m_param, dz)
         IN /\ m_param' = r.mp
            /\ h' = HAcked(h, r, e)
            /\ pc' = "ret"
            /\ err' = e
            /\ IF e # LYS_ERROR_SUCCESS
               THEN /\ m_error' = error.m_error
                    /\ m_state' = error.m_state
               ELSE /\ m_state' = lys_finish_state
                    /\ UNCHANGED m_error
    /\ UNCHANGED <<m_buf, m_buf_index, chan, api, arg, locals, env, pre>>

(***************************************************************************)
(* lys_error_send, lys_log_send                                            *)
(***************************************************************************)
\* lines 663-670, up to the first transport call
lys_error_send_begin ==
    /\ pc = "es_begin"
    /\ m_error' = error.m_error
    /\ m_state' = error.m_state
    /\ LET c == msg_create(m_buf, LYS_OP_UNKNOWN, NullParam)
       IN /\ m_buf' = c.buf
          /\ m_buf_index' = c.idx
          /\ IF c.err # LYS_ERROR_SUCCESS
             THEN /\ pc' = "ret"
                  /\ err' = c.err
             ELSE /\ pc' = "es_send"
                  /\ UNCHANGED err
    /\ bytes_written' = 0
    /\ UNCHANGED <<m_param, chan, api, arg, i, op, param_set, cells, env, pre, h>>

\* line 672 once the response to UNKNOWN is complete
lys_error_send_acked ==
    /\ pc = "es_recv"
    /\ msg_complete(m_buf, m_buf_index)
    /\ \E dz \in DivZeroResults(m_buf) :
         LET r == msg_parse(m_buf, m_param, dz)
             e == wait_for_ack(m_buf, m_param, dz)
         IN /\ m_param' = r.mp
            /\ h' = HAcked(h, r, e)
            /\ pc' = "ret"
            /\ err' = e
    /\ UNCHANGED <<m_buf, m_buf_index, m_state, m_error, chan, api, arg, locals, env, pre>>

\* a test of line 680 that forgets WAIT_FOR_START
lys_log_send_refused_in_result(st) == (LYS_STATE_RESULT = st)
\* the test of line 680: the states in which lys_log_send refuses to send
lys_log_send_refused(st) == (LYS_STATE_WAIT_FOR_START = st) \/ (LYS_STATE_RESULT = st)

\* lines 680-688, up to the first transport call
lys_log_send_begin ==
    /\ pc = "ls_begin"
    /\ IF lys_log_send_refused(m_state)
       THEN /\ pc' = "ret"
            /\ err' = LYS_ERROR_INVALID_STATE
            /\ UNCHANGED <<engine>>
       ELSE LET c == msg_create(m_buf, LYS_OP_LOG, arg[1])
            IN /\ m_param' = [m_param EXCEPT !.param_type = LYS_PARAM_TYPE_STRING]
               /\ m_buf' = c.buf
               /\ m_buf_index' = c.idx
               /\ IF c.err # LYS_ERROR_SUCCESS
                  THEN /\ m_error' = error.m_error
                       /\ m_state' = error.m_state
                       /\ pc' = "ret"
                       /\ err' = c.err
                  ELSE /\ pc' = "ls_send"
                       /\ UNCHANGED <<m_state, m_error, err>>
    /\ bytes_written' = 0
    /\ UNCHANGED <<chan, api, arg, i, op, param_set, cells, env, pre, h>>

\* lines 688-694 once the response to LOG is complete
lys_log_send_acked ==
    /\ pc = "ls_recv"
    /\ msg_complete(m_buf, m_buf_index)
    /\ \E dz \in DivZeroResults(m_buf) :
         LET r == msg_parse(m_buf, m_param, dz)
             e == wait_for_ack(m_buf, m_param, dz)
         IN /\ m_param' = r.mp
            /\ h' = HAcked(h, r, e)
            /\ pc' = "ret"
            /\ err' = e
            /\ IF e # LYS_ERROR_SUCCESS
               THEN /\ m_error' = error.m_error
                    /\ m_state' = error.m_state
               ELSE UNCHANGED <<m_state, m_error>>
    /\ UNCHANGED <<m_buf, m_buf_index, chan, api, arg, locals, env, pre>>

(***************************************************************************)
(* The environment: what the application passes and what the host writes  *)
(***************************************************************************)
\* frames the host may write: well-formed ones, and malformed ones
AckFrame == <<LYS_MSG_NO_PARAM_LEN, LYS_OP_ACK>>
StartFrame == <<LYS_MSG_NO_PARAM_LEN, LYS_OP_START>>
ParamU8Frame == <<4, LYS_OP_PARAM, LYS_PARAM_TYPE_UINT8, 7>>
ParamStrFrame == <<4, LYS_OP_PARAM, LYS_PARAM_TYPE_STRING, 97>>
HostFrames ==
    {AckFrame, StartFrame, ParamU8Frame, ParamStrFrame,
     <<LYS_MSG_NO_PARAM_LEN, LYS_OP_INIT>>,     \* a defined op the device never expects
     <<LYS_MSG_NO_PARAM_LEN, 9>>,               \* an undefined op
     <<LYS_MSG_NO_PARAM_LEN, LYS_OP_PARAM>>,    \* a PARAM that stops before its tag
     <<1>>,                                     \* a LEN byte that covers only itself
     <<LYS_DATA_INDEX, LYS_OP_PARAM, LYS_PARAM_TYPE_STRING>>,      \* an empty string
     <<5, LYS_OP_PARAM, LYS_PARAM_TYPE_ARRAY, LYS_PARAM_TYPE_UINT8, 9>>,  \* an array of one
     <<4, LYS_OP_PARAM, LYS_PARAM_TYPE_ARRAY, LYS_PARAM_TYPE_STRING>>}  \* an array of strings

\* expected lists of lys_params_receive
ExpectedLists ==
    {<<>>, <<Param(LYS_PARAM_TYPE_UINT8, <<0>>)>>, <<Param(LYS_PARAM_TYPE_STRING, <<0>>)>>,
     <<Param(LYS_PARAM_TYPE_ARRAY, <<0>>)>>}

\* parameters that encoding accepts, and parameters that it rejects
GoodParams ==
    {Param(LYS_PARAM_TYPE_UINT8, <<7>>), StrParam(u32(1), <<97>>)}
BadParams ==
    {NullParam,
     NullPtrParam(LYS_PARAM_TYPE_STRING),
     StrParam(u32(0), <<97>>),
     StrParam(u32(LYS_MAX_MSG_LEN - LYS_DATA_INDEX + 1), <<97>>),
     ArrayParam(LYS_PARAM_TYPE_UINT8, u32(0), <<1>>),
     ArrayParam(LYS_PARAM_TYPE_STRING, u32(1), <<1>>),
     ArrayParam(LYS_PARAM_TYPE_ARRAY, u32(1), <<1>>),
     ArrayParam(LYS_PARAM_TYPE_UINT32, u32(LYS_MAX_ARRAY_LEN \div 4), <<1>>)}
SendParams == GoodParams \cup BadParams

\* lists of lys_results_send
ResultLists == {<<>>, <<Param(LYS_PARAM_TYPE_UINT8, <<7>>)>>, <<NullParam>>}

\* strings of lys_log_send, as the parameter lys_log_send builds around p_str:
\* one that encoding accepts, and those it rejects
GoodLogStrings == {StrParam(u32(1), <<97>>)}
BadLogStrings ==
    {NullPtrParam(LYS_PARAM_TYPE_STRING), StrParam(u32(0), <<97>>),
     StrParam(u32(LYS_MAX_MSG_LEN - LYS_DATA_INDEX + 1), <<97>>)}
LogStrings == GoodLogStrings \cup BadLogStrings

\* the application calls any public function at any time
AppCall ==
    /\ env.app = "any"
    /\ UNCHANGED env
    /\ \/ Call("lys_param_wait", <<>>)
       \/ \E l \in ExpectedLists : Call("lys_params_receive", l)
       \/ \E p \in SendParams : Call("lys_param_send", <<p>>)
       \/ \E l \in ResultLists : Call("lys_results_send", l)
       \/ Call("lys_finish", <<>>)
       \/ Call("lys_error_send", <<>>)
       \/ \E p \in LogStrings : Call("lys_log_send", <<p>>)

\* The host writes one frame, of any content, into the down buffer once the
\* device has read what it wrote before.  The device sees the down buffer only
\* through the SEGGER_RTT_Read calls of msg_receive, so a frame written earlier
\* is a frame written while the device is in msg_receive.  (The host that writes
\* frames back to back is the host of SpecMain.)
HostWrite ==
    /\ env.host = "any"
    /\ pc \in RecvPcs
    /\ down = <<>>
    /\ \E f \in HostFrames : down' = f
    /\ UNCHANGED <<engine, up, pc, api, arg, locals, err, env, pre, h>>

\* the steps of the device inside a public function
Device ==
    \/ msg_send \/ ack_msg_send \/ msg_receive \/ HardFault
    \/ lys_param_wait_begin \/ lys_param_wait_init_acked \/ lys_param_wait_received
    \/ lys_params_receive_loop \/ lys_params_receive_next
    \/ lys_param_send_begin \/ lys_param_send_result_acked \/ lys_param_send_param_acked
    \/ lys_results_send_loop \/ lys_results_send_next
    \/ lys_finish_begin \/ lys_finish_result_acked \/ lys_finish_finished_acked
    \/ lys_error_send_begin \/ lys_error_send_acked
    \/ lys_log_send_begin \/ lys_log_send_acked

Next == lys_init \/ AppCall \/ Return \/ Device \/ HostWrite

Spec == Init /\ [][Next]_vars

(***************************************************************************)
(* main() and a host that follows the protocol                             *)
(***************************************************************************)
\* values the host passes for m_param_num_loops and m_param_blink_delay_type,
\* as the bytes of the PARAM frames
MainLoops == {<<3, 0, 0, 0>>, <<44, 1, 0, 0>>}
MainDelayTypes == {<<0>>, <<7>>}

InitMain ==
    /\ m_buf = [k \in 0..(LYS_MAX_MSG_LEN - 1) |-> 0]
    /\ m_buf_index = 0
    /\ m_state = LYS_STATE_UNKNOWN
    /\ m_error = FALSE
    /\ m_param = NoView
    /\ down = <<>>
    /\ up = <<>>
    /\ pc = "idle"
    /\ api = "none"
    /\ arg = <<>>
    /\ i = 0
    /\ err = LYS_ERROR_SUCCESS
    /\ op = NoOp
    /\ param_set = FALSE
    /\ bytes_written = 0
    /\ cells = <<>>
    /\ \E a \in MainLoops, b \in MainDelayTypes :
         env = [AnyEnv EXCEPT !.host = "main", !.app = "start", !.v32 = a, !.v8 = b]
    /\ pre = NoPre
    /\ h = InitH

\* m_params and m_results of main.c
m_params == <<Param(LYS_PARAM_TYPE_UINT32, <<0>>), Param(LYS_PARAM_TYPE_UINT8, <<0>>)>>
\* the uint32_t whose bytes in memory are b (little endian), and back
FromBytes(b) == <<b[4] * U8 + b[3], b[2] * U8 + b[1]>>
ToBytes(a) == <<a[2] % U8, a[2] \div U8, a[1] % U8, a[1] \div U8>>
\* m_result = (m_param_num_loops * m_param_blink_delay_type), line 78
m_result == u32_mul(FromBytes(cells[1].bytes), cells[2].bytes[1])
m_results == <<Param(LYS_PARAM_TYPE_UINT32, ToBytes(m_result))>>

\* line 47: the call of lys_params_receive
main_params_receive ==
    /\ env.app = "receive"
    /\ Call("lys_params_receive", m_params)
    /\ env' = [env EXCEPT !.app = "received"]

\* lines 47-54: lys_params_receive has returned
main_received ==
    /\ env.app = "received"
    /\ Leave(cells)
    /\ env' = [env EXCEPT !.app = IF err # LYS_ERROR_SUCCESS THEN "error" ELSE "compute"]

\* lines 56-79: the LEDs blink, then the call of lys_results_send
main_results_send ==
    /\ env.app = "compute"
    /\ Call("lys_results_send", m_results)
    /\ env' = [env EXCEPT !.app = "sending"]

\* lines 79-91: lys_results_send has returned
main_sent ==
    /\ env.app = "sending"
    /\ Leave(<<>>)
    /\ env' = [env EXCEPT !.app = IF err # LYS_ERROR_SUCCESS THEN "error" ELSE "finished"]

\* lines 50-53 and 82-85: the loops that call lys_error_send
main_error_send ==
    /\ env.app = "error"
    /\ Call("lys_error_send", <<>>)
    /\ UNCHANGED env

main_error_sent ==
    /\ env.app = "error"
    /\ Leave(<<>>)
    /\ UNCHANGED env

\* the frames the host sends after it has ACKed INIT
HostData ==
    <<<<7, LYS_OP_PARAM, LYS_PARAM_TYPE_UINT32>> \o env.v32,
      <<4, LYS_OP_PARAM, LYS_PARAM_TYPE_UINT8>> \o env.v8,
      StartFrame>>

\* the host reads one complete frame the device wrote
HostRead ==
    /\ env.host = "main"
    /\ ~env.owe
    /\ up # <<>>
    /\ up[1] <= Len(up)
    /\ up' = SubSeq(up, Max(up[1], 1) + 1, Len(up))
    /\ env' = IF Len(up) > LYS_OP_INDEX /\ up[LYS_OP_INDEX + 1] = LYS_OP_ACK
              THEN [env EXCEPT !.acked = @ + 1]
              ELSE [env EXCEPT !.owe = TRUE,
                               !.greeted = @ \/ (Len(up) > LYS_OP_INDEX
                                                 /\ up[LYS_OP_INDEX + 1] = LYS_OP_INIT)]
    /\ UNCHANGED <<engine, down, pc, api, arg, locals, err, pre, h>>

\* the host ACKs the frame it read
HostAck ==
    /\ env.host = "main"
    /\ env.owe
    /\ Len(down) + Len(AckFrame) <= DownSize
    /\ down' = down \o AckFrame
    /\ env' = [env EXCEPT !.owe = FALSE]
    /\ UNCHANGED <<engine, up, pc, api, arg, locals, err, pre, h>>

\* The host sends its next PARAM or START frame: right after its ACK of INIT,
\* or once it has read the device's ACK of the frame before.
HostSend ==
    /\ env.host = "main"
    /\ env.greeted
    /\ ~env.owe
    /\ env.sent < Len(HostData)
    /\ env.acked = env.sent
    /\ Len(down) + Len(HostData[env.sent + 1]) <= DownSize
    /\ down' = down \o HostData[env.sent + 1]
    /\ env' = [env EXCEPT !.sent = @ + 1]
    /\ UNCHANGED <<engine, up, pc, api, arg, locals, err, pre, h>>

\* The steps of the device inside the public functions main() calls.  main()
\* does not call lys_log_send; it calls lys_finish in state RESULT only, so
\* lys_finish sends no RESULT; and no frame of this host divides by zero.
DeviceMain ==
    \/ msg_send \/ ack_msg_send \/ msg_receive
    \/ lys_param_wait_begin \/ lys_param_wait_init_acked \/ lys_param_wait_received
    \/ lys_params_receive_loop \/ lys_params_receive_next
    \/ lys_param_send_begin \/ lys_param_send_result_acked \/ lys_param_send_param_acked
    \/ lys_results_send_loop \/ lys_results_send_next
    \/ lys_finish_begin \/ lys_finish_finished_acked
    \/ lys_error_send_begin \/ lys_error_send_acked

NextMain ==
    \/ lys_init \/ main_params_receive \/ main_received \/ main_results_send \/ main_sent
    \/ main_error_send \/ main_error_sent
    \/ DeviceMain
    \/ HostRead \/ HostAck \/ HostSend

SpecMain == InitMain /\ [][NextMain]_vars

(***************************************************************************)
(* The codec on its own.  A run either encodes: msg_create(op, p_param)    *)
(* for an op and a parameter of the caller, msg_send, and then the frame   *)
(* travels over the wire into an empty scratch buffer, where msg_receive   *)
(* and msg_parse take it; or it decodes: a frame of any content arrives    *)
(* for msg_receive and msg_parse.                                          *)
(***************************************************************************)
\* the longest string and the largest item count tried, beyond the wrapping ones
MaxLenTried == 66

\* uint32_t lengths for which 3 + L, 4 + N or 4 + 4 * N wraps around 2^32
WrapLens ==
    {<<W16 - 1, W16 - 1>>, <<W16 - 1, W16 - 3>>, <<W16 - 1, W16 - 4>>, <<1, 0>>,
     <<W16 \div 4, 0>>, <<W16 \div 4, 1>>, <<(W16 \div 4) - 1, W16 - 1>>}

\* the caller's bytes
CodecData == <<1, 2, 3, 4, 5, 6, 7>>

\* every op value, the first undefined one included
CodecOps == LYS_OP_UNKNOWN..(LYS_OP_LOG + 1)
\* every tag value, the first undefined one included
CodecTags == LYS_PARAM_TYPE_UINT32..(LYS_PARAM_TYPE_ARRAY + 1)

CodecParams ==
    {NullParam, NullPtrParam(LYS_PARAM_TYPE_STRING), NullPtrParam(LYS_PARAM_TYPE_ARRAY)}
    \cup {Param(t, CodecData) : t \in CodecTags}
    \cup {StrParam(u32(l), CodecData) : l \in 0..MaxLenTried}
    \cup {StrParam(l, CodecData) : l \in WrapLens}
    \cup {ArrayParam(t, u32(n), CodecData) : t \in CodecTags, n \in 0..MaxLenTried}
    \cup {ArrayParam(t, n, CodecData) : t \in CodecTags, n \in WrapLens}

\* what msg_create is called with
CodecJobs ==
    {<<o, NullParam>> : o \in CodecOps}
    \cup {<<o, p>> : o \in {LYS_OP_PARAM, LYS_OP_LOG}, p \in CodecParams}

\* the frames that arrive: LEN bytes, the first of them LEN, with any op and,
\* from three bytes on, any tag and any inner tag; and the single bytes 0 and 1,
\* a LEN that no frame has
CodecFrames ==
    {<<n>> : n \in 0..(LYS_MSG_NO_PARAM_LEN - 1)}
    \cup {<<LYS_MSG_NO_PARAM_LEN, o>> : o \in CodecOps}
    \cup {[k \in 1..n |-> CASE k = 1 -> n
                            [] k = 2 -> o
                            [] k = 3 -> t
                            [] k = 4 -> u
                            [] OTHER -> k] :
            n \in (LYS_MSG_NO_PARAM_LEN + 1)..DownSize, o \in {LYS_OP_PARAM, LYS_OP_LOG},
            t \in CodecTags, u \in CodecTags}

\* byte streams that start with a LEN above LYS_MAX_MSG_LEN
CodecStreams ==
    {[k \in 1..MaxLenTried |-> IF k = 1 THEN n ELSE k] : n \in {LYS_MAX_MSG_LEN + 1, U8 - 1}}

CodecEnv(job, o) == [host |-> "codec", app |-> job, op |-> o]

InitCodec ==
    /\ m_buf = [k \in 0..(LYS_MAX_MSG_LEN - 1) |-> 0]
    /\ m_buf_index = 0
    /\ m_state = LYS_STATE_UNKNOWN
    /\ m_error = FALSE
    /\ m_param = NoView
    /\ api = "none"
    /\ i = 0
    /\ err = LYS_ERROR_SUCCESS
    /\ op = NoOp
    /\ param_set = FALSE
    /\ bytes_written = 0
    /\ cells = <<>>
    /\ pre = NoPre
    /\ h = InitH
    /\ \/ \E j \in CodecJobs :
            /\ pc = "codec_create"
            /\ env = CodecEnv("encode", j[1])
            /\ arg = <<j[2]>>
            /\ down = <<>>
            /\ up = <<>>
       \/ \E f \in CodecFrames :
            /\ pc = "codec_recv"
            /\ env = CodecEnv("decode", NoOp)
            /\ arg = <<>>
            /\ down = f
            /\ up = <<>>
       \/ \E f \in CodecStreams :
            /\ pc = "codec_recv"
            /\ env = CodecEnv("decode", NoOp)
            /\ arg = <<>>
            /\ down = <<>>
            /\ up = f

\* msg_create(op, p_param), and msg_send when it succeeds.  A memcpy whose
\* length wrapped runs off the end of m_buf and of the memory behind it: the
\* device faults.
codec_create ==
    /\ pc = "codec_create"
    /\ LET c == msg_create(m_buf, env.op, arg[1])
       IN /\ m_buf' = c.buf
          /\ m_buf_index' = c.idx
          /\ err' = c.err
          /\ pc' = IF c.err # LYS_ERROR_SUCCESS THEN "codec_done"
                   ELSE IF c.oob THEN "fault"
                   ELSE "codec_send"
    /\ bytes_written' = 0
    /\ UNCHANGED <<m_state, m_error, m_param, chan, api, arg, i, op, param_set, cells, env,
                   pre, h>>

\* the frame is on the wire; the receiving side starts msg_receive with a
\* scratch buffer that holds none of it
codec_wire ==
    /\ pc = "codec_wire"
    /\ pc' = "codec_recv"
    /\ m_buf' = [k \in 0..(LYS_MAX_MSG_LEN - 1) |-> 0]
    /\ m_buf_index' = 0
    /\ UNCHANGED <<m_state, m_error, m_param, chan, api, arg, locals, err, env, pre, h>>

\* the wire hands the next bytes to the receiving side
codec_deliver ==
    /\ pc = "codec_recv"
    /\ up # <<>>
    /\ down = <<>>
    /\ LET n == Min(Len(up), DownSize)
       IN /\ down' = SubSeq(up, 1, n)
          /\ up' = SubSeq(up, n + 1, Len(up))
    /\ UNCHANGED <<engine, pc, api, arg, locals, err, env, pre, h>>

\* msg_parse(&op, &p_param) on the frame msg_receive completed
codec_parse ==
    /\ pc = "codec_recv"
    /\ msg_complete(m_buf, m_buf_index)
    /\ \E dz \in DivZeroResults(m_buf) :
         LET r == msg_parse(m_buf, m_param, dz)
         IN /\ m_param' = r.mp
            /\ op' = r.op
            /\ err' = r.err
            /\ param_set' = r.has_param
    /\ pc' = "codec_done"
    /\ UNCHANGED <<m_buf, m_buf_index, m_state, m_error, chan, api, arg, i, bytes_written,
                   cells, env, pre, h>>

NextCodec ==
    \/ codec_create \/ msg_send \/ codec_wire \/ codec_deliver \/ msg_receive
    \/ codec_parse \/ HardFault

SpecCodec == InitCodec /\ [][NextCodec]_vars


(***************************************************************************)
(* Properties                                                              *)
(***************************************************************************)
\* a step in which SEGGER_RTT_Write accepts bytes from the device
Wrote ==
    /\ pc \in SendPcs \cup {"pw_ack"}
    /\ <<pc, bytes_written>>' # <<pc, bytes_written>>

\* a step in which the device writes the last byte of a frame with op o
Completed(o) == h'.call.call_frames = Append(h.call.call_frames, o)

\* a step that is the call of lys_init
InitStep == pc = "idle" /\ pc' = "idle" /\ h'.session = NoSession /\ ~m_error'

\* the public function in progress is, or has called, lys_param_wait
InParamWait == api \in {"lys_param_wait", "lys_params_receive"}

IsPrefix(s, t) == Len(s) <= Len(t) /\ s = SubSeq(t, 1, Len(s))

\* C1: the session state changes only along the edges UNKNOWN -> WAIT_FOR_START
\* (inside lys_param_wait, after INIT was sent and an ACK received, with the
\* sticky error false), WAIT_FOR_START -> RUNNING (a START frame was received
\* and ACKed), RUNNING -> RESULT (after RESULT was sent and an ACK received),
\* and any state -> UNKNOWN (by error(), lys_error_send or lys_init).
C1_StateEdges ==
    [][m_state' # m_state =>
         \/ /\ m_state = LYS_STATE_UNKNOWN
            /\ m_state' = LYS_STATE_WAIT_FOR_START
            /\ InParamWait
            /\ ~m_error /\ ~m_error'
            /\ h.call.tx_op = LYS_OP_INIT
            /\ h'.call.rx_op = LYS_OP_ACK /\ h'.call.rx_err = LYS_ERROR_SUCCESS
         \/ /\ m_state = LYS_STATE_WAIT_FOR_START
            /\ m_state' = LYS_STATE_RUNNING
            /\ h.call.rx_wait
            /\ h.call.rx_op = LYS_OP_START /\ h.call.rx_err = LYS_ERROR_SUCCESS
            /\ h'.call.tx_op = LYS_OP_ACK /\ h'.call.ack_sent = AckFrame
         \/ /\ m_state = LYS_STATE_RUNNING
            /\ m_state' = LYS_STATE_RESULT
            /\ h.call.tx_op = LYS_OP_RESULT
            /\ h'.call.rx_op = LYS_OP_ACK /\ h'.call.rx_err = LYS_ERROR_SUCCESS
         \/ /\ m_state' = LYS_STATE_UNKNOWN
            /\ m_error' \/ InitStep]_vars

\* C1 witness: a session has gone UNKNOWN -> WAIT_FOR_START -> RUNNING -> RESULT
\* and lys_finish has completed in it
C1_Witness ==
    /\ m_state = LYS_STATE_RESULT
    /\ h.session.fin_acked
    /\ ~m_error

\* C2: after the device completed a non-ACK frame it writes no byte until a
\* complete frame has arrived from the host; and once lys_param_wait decoded a
\* frame the device writes exactly the ACK frame 02 06 before anything else (it
\* neither returns nor reads before that), and it writes an ACK only then.
C2_HandshakeAlternation ==
    [][/\ Wrote => ~h.wire.tx_pending
       /\ Wrote /\ h.call.ack_owed => IsPrefix(h'.call.ack_sent, AckFrame)
       /\ h.call.ack_owed => Wrote \/ UNCHANGED vars
       /\ Completed(LYS_OP_ACK) => h.call.ack_owed /\ ~h'.call.ack_owed]_vars

\* C2 witness: in one call the device has sent INIT and got its response, then
\* received two frames and ACKed each
C2_Witness ==
    /\ h.call.call_frames = <<LYS_OP_INIT, LYS_OP_ACK, LYS_OP_ACK>>
    /\ h.call.ack_sent = AckFrame
    /\ ~h.call.ack_owed
    /\ ~h.wire.tx_pending

\* a frame has been exchanged on the wire during the current call
FrameExchanged == h.call.call_frames # <<>> \/ h.call.rx_op # NoOp

\* C3: when lys_params_receive returns a non-success code after at least one
\* frame has been exchanged on the wire, the sticky error flag is set and the
\* state is UNKNOWN.
C3_ReceiveFailureIsFatal ==
    (pc = "ret" /\ api = "lys_params_receive" /\ err # LYS_ERROR_SUCCESS /\ FrameExchanged)
        => (m_error /\ m_state = LYS_STATE_UNKNOWN)

\* C4: lys_param_send called in state RESULT, or lys_log_send called in a state
\* where logging is allowed, with a parameter that encoding rejects returns
\* InvalidParam, has written no byte, and has left the state and the sticky
\* error flag as they were when it was called.
C4_ValidationFailureLeavesEngine ==
    (/\ pc = "ret"
     /\ \/ api = "lys_param_send" /\ pre.m_state = LYS_STATE_RESULT /\ arg[1] \in BadParams
        \/ /\ api = "lys_log_send"
           /\ pre.m_state \notin {LYS_STATE_WAIT_FOR_START, LYS_STATE_RESULT}
           /\ arg[1] \in BadLogStrings)
        => /\ err = LYS_ERROR_INVALID_PARAM
           /\ ~h.call.call_wrote
           /\ m_state = pre.m_state
           /\ m_error = pre.m_error

\* where the device waits for the response to INIT, RESULT, PARAM, FINISHED, LOG
AckRecvPcs == RecvPcs \ {"pw_recv", "es_recv"}

\* the bytes msg_receive has read for the current frame
Received == Slice(m_buf, 0, m_buf_index)

\* a step that ends msg_receive: the frame is complete and the device goes on
Evaluated == pc \in RecvPcs /\ msg_complete(m_buf, m_buf_index) /\ pc' # pc

\* the step ends with the public function returning a fatal error
FatalReturn ==
    /\ pc' \in {"ret", "pr_ret", "rs_ret"}
    /\ err' # LYS_ERROR_SUCCESS
    /\ m_error'
    /\ m_state' = LYS_STATE_UNKNOWN

\* C5: when the frame received in response to INIT, RESULT, PARAM, FINISHED or
\* LOG is not an ACK or fails to decode, the operation returns an error with
\* the sticky error flag set and the state UNKNOWN; and a frame received by
\* lys_param_wait either decodes, or the operation returns an error with the
\* flag set and the state UNKNOWN, and no ACK is written for the frame.
C5_BadResponseIsFatal ==
    [][/\ (Evaluated /\ pc \in AckRecvPcs /\ Received # AckFrame) => FatalReturn
       /\ (Evaluated /\ pc = "pw_recv") =>
             \/ h'.call.ack_owed /\ h'.call.rx_err = LYS_ERROR_SUCCESS
             \/ FatalReturn /\ ~h'.call.ack_owed]_vars

\* C6: when lys_param_wait has received a frame that decodes and whose op is
\* neither PARAM nor START, or lys_params_receive has received a PARAM after the
\* expected list was consumed, the frame has been ACKed and the call returns
\* InvalidState with the sticky error flag set and the state UNKNOWN.
C6_UnexpectedOpIsFatal ==
    (/\ pc = "ret"
     /\ InParamWait
     /\ h.call.rx_wait
     /\ h.call.rx_err = LYS_ERROR_SUCCESS
     /\ \/ h.call.rx_op \notin {LYS_OP_PARAM, LYS_OP_START}
        \/ api = "lys_params_receive" /\ h.call.rx_op = LYS_OP_PARAM /\ i = Len(arg))
        => /\ h.call.ack_sent = AckFrame
           /\ h.call.tx_op = LYS_OP_ACK
           /\ err = LYS_ERROR_INVALID_STATE
           /\ m_error
           /\ m_state = LYS_STATE_UNKNOWN

\* C6 witness: lys_params_receive with one expected parameter has received it
\* and then a second PARAM where START was due
C6_Witness ==
    /\ pc = "ret"
    /\ api = "lys_params_receive"
    /\ Len(arg) = 1 /\ i = 1
    /\ cells[1] # EmptyCell
    /\ h.call.rx_wait /\ h.call.rx_op = LYS_OP_PARAM /\ h.call.rx_err = LYS_ERROR_SUCCESS

\* C7: once the sticky error flag is set, no step of any public function and
\* nothing the host writes clears it; only lys_init does.
C7_ErrorLatch == [][m_error /\ ~m_error' => InitStep]_vars

\* C7 witness: a call made with the flag set has exchanged frames with the host
\* and returned, and the flag is still set
C7_Witness ==
    /\ pc = "ret"
    /\ pre.m_error
    /\ m_error
    /\ h.call.call_wrote /\ h.call.call_read

\* C8: since the last lys_init, with every device frame answered by an ACK,
\* once a FINISHED frame has been sent and acknowledged the device completes
\* no further PARAM, RESULT or FINISHED frame.
C8_NothingAfterFinished ==
    [][(h.session.fin_acked /\ ~h.session.nacked) =>
          /\ ~Completed(LYS_OP_PARAM)
          /\ ~Completed(LYS_OP_RESULT)
          /\ ~Completed(LYS_OP_FINISHED)]_vars

\* C9: in a session of main() with a host that follows the protocol, whatever
\* the transport's read and write calls split or coalesce, the sticky error
\* flag is never set, lys_params_receive returns success with the state RUNNING
\* and the two destination cells holding the values the host sent,
\* lys_results_send returns success, main() never enters its error loops, and
\* the session does not stop before both calls have returned.
C9_SessionCompletes ==
    /\ ~m_error
    /\ (env.app = "received" /\ pc = "ret") =>
          /\ err = LYS_ERROR_SUCCESS
          /\ m_state = LYS_STATE_RUNNING
          /\ cells[1].bytes = env.v32
          /\ cells[2].bytes = env.v8
    /\ (env.app = "sending" /\ pc = "ret") => err = LYS_ERROR_SUCCESS
    /\ env.app # "error"
    /\ env.app = "finished" \/ ENABLED NextMain

\* C10: lys_log_send called in state WAIT_FOR_START or RESULT writes no byte,
\* leaves the state and the sticky error flag as they were and returns
\* InvalidState; and the device is never writing, or waiting for the response
\* to, a LOG frame while the state is WAIT_FOR_START or RESULT.
C10_LogForbiddenWindow ==
    /\ (api = "lys_log_send" /\ pre.m_state \in {LYS_STATE_WAIT_FOR_START, LYS_STATE_RESULT}) =>
          /\ pc \in {"ls_begin", "ret"}
          /\ ~h.call.call_wrote
          /\ m_state = pre.m_state
          /\ m_error = pre.m_error
          /\ pc = "ret" => err = LYS_ERROR_INVALID_STATE
    /\ pc \in {"ls_send", "ls_recv"} =>
          m_state \notin {LYS_STATE_WAIT_FOR_START, LYS_STATE_RESULT}

\* C10 witness: lys_log_send has been refused in state RESULT
C10_Witness ==
    /\ pc = "ret"
    /\ api = "lys_log_send"
    /\ pre.m_state = LYS_STATE_RESULT
    /\ err = LYS_ERROR_INVALID_STATE

\* C11: lys_param_wait called in a state other than WAIT_FOR_START, and not in
\* UNKNOWN with the sticky error false, returns InvalidState at once: no byte
\* is written, none is read, and the state and the sticky error flag stay as
\* they were.
C11_ParamWaitRefused ==
    (/\ api = "lys_param_wait"
     /\ pre.m_state # LYS_STATE_WAIT_FOR_START
     /\ ~(pre.m_state = LYS_STATE_UNKNOWN /\ ~pre.m_error)) =>
        /\ pc \in {"pw_begin", "ret"}
        /\ ~h.call.call_wrote
        /\ ~h.call.call_read
        /\ m_state = pre.m_state
        /\ m_error = pre.m_error
        /\ pc = "ret" => err = LYS_ERROR_INVALID_STATE

\* C11 witness: lys_param_wait has been refused in UNKNOWN with the sticky
\* error set
C11_Witness ==
    /\ pc = "ret"
    /\ api = "lys_param_wait"
    /\ pre.m_state = LYS_STATE_UNKNOWN
    /\ pre.m_error
    /\ err = LYS_ERROR_INVALID_STATE

Payload(p, n) == [k \in 1..n |-> DataByte(p.data, k - 1)]

\* a codec run that encoded op o with a parameter has ended
Encoded(o) == pc = "codec_done" /\ env.app = "encode" /\ env.op = o

\* decode(encode(PARAM, s)) = (PARAM, s) for the strings of 1 to most bytes
StringRoundTrip(most) ==
    (/\ Encoded(LYS_OP_PARAM)
     /\ arg[1].param_type = LYS_PARAM_TYPE_STRING
     /\ ~arg[1].null /\ ~arg[1].ptr_null
     /\ arg[1].len[1] = 0 /\ arg[1].len[2] \in 1..most) =>
        /\ err = LYS_ERROR_SUCCESS
        /\ op = LYS_OP_PARAM
        /\ param_set
        /\ m_param.param_type = LYS_PARAM_TYPE_STRING
        /\ m_param.str_len = arg[1].len
        /\ BufBytes(m_buf, LYS_DATA_INDEX, arg[1].len[2]) = Payload(arg[1], arg[1].len[2])

\* C14: for every string s of 1 to 64 bytes, encoding a PARAM frame that
\* carries s succeeds, and decoding the frame gives op PARAM and a STRING of
\* the same length and the same bytes.
C14_StringRoundTrip == StringRoundTrip(LYS_MAX_STR_LEN)

\* decode(encode(PARAM, a)) = (PARAM, a) for the arrays of scalars of 1 to
\* most bytes of items
ArrayRoundTrip(most) ==
    (/\ Encoded(LYS_OP_PARAM)
     /\ arg[1].param_type = LYS_PARAM_TYPE_ARRAY
     /\ ~arg[1].null /\ ~arg[1].ptr_null
     /\ arg[1].inner \in {LYS_PARAM_TYPE_UINT32, LYS_PARAM_TYPE_INT32, LYS_PARAM_TYPE_UINT8,
                          LYS_PARAM_TYPE_INT8, LYS_PARAM_TYPE_BOOL}
     /\ arg[1].len[1] = 0 /\ arg[1].len[2] >= 1
     /\ arg[1].len[2] * lys_param_len_lookup(arg[1].inner).len <= most) =>
        /\ err = LYS_ERROR_SUCCESS
        /\ op = LYS_OP_PARAM
        /\ param_set
        /\ m_param.param_type = LYS_PARAM_TYPE_ARRAY
        /\ m_param.array_type = arg[1].inner
        /\ m_param.item_count = arg[1].len
        /\ LET n == arg[1].len[2] * lys_param_len_lookup(arg[1].inner).len
           IN BufBytes(m_buf, LYS_ARRAY_DATA_INDEX, n) = Payload(arg[1], n)

\* C15: for every array a of N >= 1 items of a scalar tag T with
\* N * size_of(T) <= 64, encoding a PARAM frame that carries a succeeds, and
\* decoding the frame gives op PARAM and an ARRAY of the same inner tag, item
\* count and item bytes.
C15_ArrayRoundTrip == ArrayRoundTrip(LYS_MAX_ARRAY_LEN)

\* C16: every frame the device emits, msg_create followed by msg_send for any
\* op and any parameter that encoding accepts, has a first byte equal to the
\* number of bytes emitted for it, which is between 2 and 64; a frame of an op
\* without parameter is the two bytes [2, op].  While msg_send is writing, the
\* bytes written so far are the first bytes of such a frame.
C16_LengthPrefix ==
    /\ (pc = "codec_send" /\ up # <<>>) =>
          /\ up[1] = m_buf_index
          /\ Len(up) = bytes_written
          /\ bytes_written < m_buf_index
    /\ pc = "codec_wire" =>
          /\ up[LYS_LEN_INDEX + 1] = Len(up)
          /\ Len(up) >= LYS_MSG_NO_PARAM_LEN
          /\ Len(up) <= LYS_MAX_MSG_LEN
          /\ up[LYS_OP_INDEX + 1] = env.op
          /\ env.op \notin {LYS_OP_PARAM, LYS_OP_LOG} => up = <<LYS_MSG_NO_PARAM_LEN, env.op>>

\* C16 witness: a frame of 64 bytes has been emitted
C16_Witness ==
    /\ pc = "codec_wire"
    /\ env.op = LYS_OP_LOG
    /\ Len(up) = LYS_MAX_MSG_LEN

\* C17: lys_error_send, in whatever state it is called and whatever the host
\* answers, has the sticky error flag set and the state UNKNOWN from its first
\* statement on, writes the frame 02 00 and nothing else, and has written
\* exactly that one UNKNOWN frame when it returns; so for every call of a loop
\* of lys_error_send calls.
C17_ErrorSendBestEffort ==
    (api = "lys_error_send" /\ pc # "es_begin") =>
        /\ m_error
        /\ m_state = LYS_STATE_UNKNOWN
        /\ IsPrefix(h.call.call_frames, <<LYS_OP_UNKNOWN>>)
        /\ pc = "es_send" =>
              /\ h.call.call_frames = <<>>
              /\ m_buf_index = LYS_MSG_NO_PARAM_LEN
              /\ Slice(m_buf, 0, m_buf_index) = <<LYS_MSG_NO_PARAM_LEN, LYS_OP_UNKNOWN>>
        /\ pc \in {"es_recv", "ret"} => h.call.call_frames = <<LYS_OP_UNKNOWN>>

\* C17 witness: a lys_error_send called with the sticky error already set (a
\* later call of the loop) has returned after a response that is not an ACK
C17_Witness ==
    /\ pc = "ret"
    /\ api = "lys_error_send"
    /\ pre.m_error
    /\ h.call.call_read
    /\ h.call.rx_op # LYS_OP_ACK
    /\ err # LYS_ERROR_SUCCESS

\* C18: the scratch buffer never holds bytes of two frames: when msg_receive
\* has a complete frame, it has taken from the transport the bytes of that
\* frame and no byte of the frame the host wrote after it.
C18_OneFrameInBuffer ==
    (pc \in RecvPcs /\ msg_complete(m_buf, m_buf_index)) =>
        m_buf_index = m_buf[LYS_LEN_INDEX]

\* the tags of fixed size
ScalarTags ==
    {LYS_PARAM_TYPE_UINT32, LYS_PARAM_TYPE_INT32, LYS_PARAM_TYPE_UINT8, LYS_PARAM_TYPE_INT8,
     LYS_PARAM_TYPE_BOOL}

\* C19: decoding a received PARAM or LOG frame returns, and returns
\* InvalidParam when the tag is STRING and LEN - 3 < 1, when the tag is ARRAY
\* and the inner tag is not a scalar tag, and when the tag is ARRAY and LEN - 4
\* is not a positive multiple of the size of the inner tag; when it succeeds,
\* a string has a length in 1..61 and an array at least one item, and the
\* bytes of either lie inside the frame.
C19_DecodeRejectsMalformed ==
    (/\ env.app = "decode"
     /\ pc \in {"codec_done", "fault"}
     /\ m_buf[LYS_LEN_INDEX] > LYS_MSG_NO_PARAM_LEN
     /\ m_buf[LYS_OP_INDEX] \in {LYS_OP_PARAM, LYS_OP_LOG}) =>
        LET len == m_buf[LYS_LEN_INDEX]
            tag == m_buf[LYS_PARAM_TYPE_INDEX]
            inner == m_buf[LYS_ARRAY_PARAM_TYPE_INDEX]
            size == lys_param_len_lookup(inner).len
        IN /\ pc = "codec_done"
           /\ (tag = LYS_PARAM_TYPE_STRING /\ len - LYS_DATA_INDEX < 1) =>
                 err = LYS_ERROR_INVALID_PARAM
           /\ (tag = LYS_PARAM_TYPE_ARRAY /\ inner \notin ScalarTags) =>
                 err = LYS_ERROR_INVALID_PARAM
           /\ (/\ tag = LYS_PARAM_TYPE_ARRAY
               /\ inner \in ScalarTags
               /\ ~(/\ len - LYS_ARRAY_DATA_INDEX >= 1
                    /\ (len - LYS_ARRAY_DATA_INDEX) % size = 0)) =>
                 err = LYS_ERROR_INVALID_PARAM
           /\ (err = LYS_ERROR_SUCCESS /\ tag = LYS_PARAM_TYPE_STRING) =>
                 /\ m_param.str_len[1] = 0
                 /\ m_param.str_len[2] \in 1..(LYS_MAX_MSG_LEN - LYS_DATA_INDEX)
                 /\ LYS_DATA_INDEX + m_param.str_len[2] <= len
           /\ (err = LYS_ERROR_SUCCESS /\ tag = LYS_PARAM_TYPE_ARRAY) =>
                 /\ m_param.item_count[1] = 0
                 /\ m_param.item_count[2] >= 1
                 /\ LYS_ARRAY_DATA_INDEX + m_param.item_count[2] * size <= len

\* the true value of 3 + L, of 4 + N * size, exceeds LYS_MAX_MSG_LEN
StrTooLong(l) == l[1] > 0 \/ LYS_DATA_INDEX + l[2] > LYS_MAX_MSG_LEN
ArrayTooLong(n, size) == n[1] > 0 \/ LYS_ARRAY_DATA_INDEX + n[2] * size > LYS_MAX_MSG_LEN

\* C20: for every string length L and every item count N of 32 bits, encoding
\* returns InvalidParam when the true value of 3 + L, or of 4 + N * size_of(T),
\* exceeds 64: no byte of such a parameter is copied or sent.
C20_EncodeRejectsOverlong ==
    (/\ env.app = "encode"
     /\ pc # "codec_create"
     /\ env.op \in {LYS_OP_PARAM, LYS_OP_LOG}
     /\ ~arg[1].null /\ ~arg[1].ptr_null
     /\ \/ arg[1].param_type = LYS_PARAM_TYPE_STRING /\ StrTooLong(arg[1].len)
        \/ /\ arg[1].param_type = LYS_PARAM_TYPE_ARRAY
           /\ arg[1].inner \in ScalarTags
           /\ ArrayTooLong(arg[1].len, lys_param_len_lookup(arg[1].inner).len)) =>
        /\ pc = "codec_done"
        /\ err = LYS_ERROR_INVALID_PARAM
        /\ ~h.call.call_wrote

\* msg_parse has run on a frame msg_receive completed
Parsed == pc = "codec_done" /\ h.call.call_read

\* the indices of m_buf that msg_parse and param_parse read for the frame in buf
ParseReads(buf) ==
    {LYS_OP_INDEX}
    \cup (IF buf[LYS_OP_INDEX] \in {LYS_OP_PARAM, LYS_OP_LOG}
          THEN {LYS_LEN_INDEX, LYS_PARAM_TYPE_INDEX} ELSE {})
    \cup (IF /\ buf[LYS_OP_INDEX] \in {LYS_OP_PARAM, LYS_OP_LOG}
             /\ buf[LYS_PARAM_TYPE_INDEX] = LYS_PARAM_TYPE_ARRAY
          THEN {LYS_ARRAY_PARAM_TYPE_INDEX} ELSE {})

\* C21: when msg_parse runs after msg_receive, every index of the scratch
\* buffer it reads (op, tag, inner tag) is below the receive fill level, and
\* so is the data range it hands to the caller, for every frame the host can
\* send, those with a LEN byte of 0, 1, 2 or 3 included.
C21_ParseReadsReceivedBytes ==
    Parsed =>
        /\ \A n \in ParseReads(m_buf) : n < m_buf_index
        /\ (param_set /\ m_param.param_type = LYS_PARAM_TYPE_STRING) =>
              /\ m_param.str_len[1] = 0
              /\ LYS_DATA_INDEX + m_param.str_len[2] <= m_buf_index
        /\ (param_set /\ m_param.param_type = LYS_PARAM_TYPE_ARRAY) =>
              /\ m_param.item_count[1] = 0
              /\ LYS_ARRAY_DATA_INDEX
                    + m_param.item_count[2] * lys_param_len_lookup(m_param.array_type).len
                 <= m_buf_index
        /\ (param_set /\ m_param.param_type \in ScalarTags) =>
              LYS_DATA_INDEX + lys_param_len_lookup(m_param.param_type).len <= m_buf_index

\* C22: whenever the sticky error flag is set the state is UNKNOWN, and a call
\* of lys_param_wait, lys_params_receive, lys_param_send, lys_results_send or
\* lys_finish made with the flag set writes no byte, reads none, leaves the
\* flag set and the state UNKNOWN, and returns InvalidState.
C22_ErrorMeansUnknown ==
    /\ m_error => m_state = LYS_STATE_UNKNOWN
    /\ (/\ pre.m_error
        /\ api \in {"lys_param_wait", "lys_params_receive", "lys_param_send",
                    "lys_results_send", "lys_finish"}) =>
          /\ ~h.call.call_wrote
          /\ ~h.call.call_read
          /\ h.call.call_frames = <<>>
          /\ m_error
          /\ pc = "ret" => err = LYS_ERROR_INVALID_STATE

\* C22 witness: lys_finish has returned from a call made with the sticky error
\* set, after lys_results_send was turned away in the same way
C22_Witness ==
    /\ pc = "ret"
    /\ api = "lys_finish"
    /\ pre.m_error
    /\ m_state = LYS_STATE_UNKNOWN
    /\ err = LYS_ERROR_INVALID_STATE

====
